---- MODULE Spec2Model ----
(***************************************************************************)
(* A model of vw/Image/PixelMask.h: the PixelMask<ChildT> wrapper pixel,   *)
(* the four elementwise compound functors that dispatch on the channel     *)
(* count, mean_channel_value, and the two lazy views CreatePixelMaskView   *)
(* and ApplyPixelMaskView.                                                 *)
(*                                                                         *)
(* A pixel is a record [ct, child, valid]: ct names the channel numeric    *)
(* type, child is the sequence of the payload channels (channel i of the   *)
(* code is child[i+1]) and valid is the raw content of m_valid.            *)
(***************************************************************************)
EXTENDS Integers, Sequences, FiniteSets, TLC

VARIABLES n, a, b, last, img, cmv, amv, qry

vars == <<n, a, b, last, img, cmv, amv, qry>>

(***************************************************************************)
(* Bounds of the model.                                                    *)
(***************************************************************************)
\* Largest payload channel count; 5 and above take the general Helper.
MaxChannels == 5
\* Payload channel values handed to the constructors start in 0..MaxVal.
MaxVal == 1
\* The image behind the views has MaxCols x 1 x 1 pixels.
MaxCols == 1
\* Largest channel count of the pixels of that image.
MaxViewChannels == 2

(***************************************************************************)
(* The channel numeric types and their ChannelRange.                       *)
(***************************************************************************)
ChannelTypes == {"uint8", "int8"}

ChannelRangeMin(t) == IF t = "uint8" THEN 0 ELSE -128

ChannelRangeMax(t) == IF t = "uint8" THEN 255 ELSE 127

\* channel_type(): the value-initialised channel.
ChannelZero(t) == 0

\* Conversion of an integer to channel type t (two's complement wrap).
ChannelCast(t, x) ==
  LET lo == ChannelRangeMin(t)
      w  == ChannelRangeMax(t) - lo + 1
  IN  ((x - lo) % w) + lo

\* A channel_type used as a condition: non-zero is true.
Truthy(x) == x # 0

(***************************************************************************)
(* The child (payload) type.                                               *)
(***************************************************************************)
\* ChildT(): every channel zero.
ChildDefault(k) == [i \in 1..k |-> 0]

\* ChildT(other.child()): the child's own channel-wise conversion.
ChildConvert(t, c) == [i \in 1..Len(c) |-> ChannelCast(t, c[i])]

(***************************************************************************)
(* PixelMask<ChildT>.                                                      *)
(***************************************************************************)
C7_MutDefaultValid(t, k) ==
  [ct |-> t, child |-> ChildDefault(k), valid |-> ChannelRangeMax(t)]

\* PixelMask()
PixelMaskDefault(t, k) ==
  [ct |-> t, child |-> ChildDefault(k), valid |-> ChannelRangeMin(t)]

C8_MutChildInvalid(t, pix) ==
  [ct |-> t, child |-> pix, valid |-> ChannelRangeMin(t)]

\* PixelMask( T const& pix )
PixelMaskFromChild(t, pix) ==
  [ct |-> t, child |-> pix, valid |-> ChannelRangeMax(t)]

\* explicit PixelMask( PixelMask<OtherT> other )
PixelMaskConvert(t, other) ==
  IF Truthy(other.valid)
  THEN [ct |-> t, child |-> ChildConvert(t, other.child),
        valid |-> ChannelRangeMax(t)]
  ELSE [ct |-> t, child |-> ChildDefault(Len(other.child)),
        valid |-> ChannelZero(t)]

\* PixelMask( a0, a1 )
PixelMask2(t, a0, a1) ==
  [ct |-> t, child |-> <<a0, a1>>, valid |-> ChannelRangeMax(t)]

\* PixelMask( a0, a1, a2 )
PixelMask3(t, a0, a1, a2) ==
  [ct |-> t, child |-> <<a0, a1, a2>>, valid |-> ChannelRangeMax(t)]

\* PixelMask( a0, a1, a2, a3 )
PixelMask4(t, a0, a1, a2, a3) ==
  [ct |-> t, child |-> <<a0, a1, a2, a3>>, valid |-> ChannelRangeMax(t)]

\* valid()
Valid(p) == p.valid

\* invalidate()
Invalidate(p) == [p EXCEPT !.valid = ChannelRangeMin(p.ct)]

\* validate()
Validate(p) == [p EXCEPT !.valid = ChannelRangeMax(p.ct)]

\* child()
Child(p) == p.child

\* operator[](int i) const
Channel(p, i) == IF i = Len(p.child) THEN p.valid ELSE p.child[i + 1]

C12_MutBoundaryOffByOne(p, i, v) ==
  IF i >= Len(p.child) - 1
  THEN [p EXCEPT !.valid = v]
  ELSE [p EXCEPT !.child[i + 1] = v]

\* operator[](int i), written through the returned reference
SetChannel(p, i, v) ==
  IF i = Len(p.child)
  THEN [p EXCEPT !.valid = v]
  ELSE [p EXCEPT !.child[i + 1] = v]

C6_MutTransparentWhenValid(p) == Truthy(Valid(p))

\* is_transparent
IsTransparent(p) == ~Truthy(Valid(p))

(***************************************************************************)
(* mean_channel_value.  The double it returns is kept as the exact         *)
(* fraction num/den.                                                       *)
(***************************************************************************)
RECURSIVE SumChannels(_, _)
\* accum after the loop "for( i=0; i<bound; ++i ) accum += arg[i]"
SumChannels(arg, bound) ==
  IF bound <= 0 THEN 0
  ELSE SumChannels(arg, bound - 1) + Channel(arg, bound - 1)

MeanChannelValue(arg) ==
  IF Truthy(Valid(arg))
  THEN LET num_channels == Len(arg.child)
       IN  [num |-> SumChannels(arg, num_channels - 1), den |-> num_channels]
  ELSE [num |-> 0, den |-> 1]

(***************************************************************************)
(* The caller's elementwise functions FuncT.  The in-place forms write     *)
(* the same value through their first argument.                            *)
(***************************************************************************)
BinaryFuncs == {"sum", "difference"}

UnaryFuncs == {"negation", "successor"}

Func2(f, t, x, y) == ChannelCast(t, IF f = "sum" THEN x + y ELSE x - y)

Func1(f, t, x) == ChannelCast(t, IF f = "negation" THEN 0 - x ELSE x + 1)

(***************************************************************************)
(* What one call of a functor does, in order: <<"valid", k>> is a call of  *)
(* argk.valid(), <<"func", i>> is a call of func on channel i.             *)
(***************************************************************************)
ValidEv(k) == <<"valid", k>>

FuncEv(i) == <<"func", i>>

\* arg1.valid() && arg2.valid(): the second call only when the first is true
TestTrace2(arg1, arg2) ==
  IF Truthy(Valid(arg1)) THEN <<ValidEv(1), ValidEv(2)>> ELSE <<ValidEv(1)>>

TestTrace1 == <<ValidEv(1)>>

\* for( int i=0; i<ChannelsN-1; ++i ) func(...)
LoopTrace(ChannelsN) == [i \in 1..(ChannelsN - 1) |-> FuncEv(i - 1)]

\* The arguments of a constructor call are evaluated in an order the
\* language leaves open: order is a permutation of 1..k.
ArgsTrace(order) == [j \in 1..Len(order) |-> FuncEv(order[j] - 1)]

\* The sequenced statements func(arg[0]); ... func(arg[k-1]);
StmtTrace(k) == [j \in 1..k |-> FuncEv(j - 1)]

Orders(k) == IF k \in 2..4 THEN Permutations(1..k) ELSE {<<>>}

(***************************************************************************)
(* PixelMaskBinaryCompoundFunctor                                          *)
(***************************************************************************)
RECURSIVE BinaryLoop(_, _, _, _, _, _)
BinaryLoop(f, result, arg1, arg2, i, ChannelsN) ==
  IF i < ChannelsN - 1
  THEN BinaryLoop(f,
         SetChannel(result, i,
                    Func2(f, result.ct, Channel(arg1, i), Channel(arg2, i))),
         arg1, arg2, i + 1, ChannelsN)
  ELSE result

\* Helper<CompoundB,ChannelsN,...>::construct, the general case
BinaryHelperN(f, arg1, arg2, ChannelsN) ==
  IF Truthy(Valid(arg1)) /\ Truthy(Valid(arg2))
  THEN [out |-> Validate(BinaryLoop(f, PixelMaskDefault(arg1.ct, ChannelsN - 1),
                                    arg1, arg2, 0, ChannelsN)),
        trace |-> TestTrace2(arg1, arg2) \o LoopTrace(ChannelsN)]
  ELSE [out |-> PixelMaskDefault(arg1.ct, ChannelsN - 1),
        trace |-> TestTrace2(arg1, arg2)]

\* Helper<true,2,...>::construct
BinaryHelper1(f, arg1, arg2) ==
  IF Truthy(Valid(arg1)) /\ Truthy(Valid(arg2))
  THEN [out |-> PixelMaskFromChild(arg1.ct,
                  <<Func2(f, arg1.ct, Channel(arg1, 0), Channel(arg2, 0))>>),
        trace |-> TestTrace2(arg1, arg2) \o <<FuncEv(0)>>]
  ELSE [out |-> PixelMaskDefault(arg1.ct, 1),
        trace |-> TestTrace2(arg1, arg2)]

\* Helper<true,3,...>::construct
BinaryHelper2(f, arg1, arg2, order) ==
  IF Truthy(Valid(arg1)) /\ Truthy(Valid(arg2))
  THEN [out |-> PixelMask2(arg1.ct,
                  Func2(f, arg1.ct, Channel(arg1, 0), Channel(arg2, 0)),
                  Func2(f, arg1.ct, Channel(arg1, 1), Channel(arg2, 1))),
        trace |-> TestTrace2(arg1, arg2) \o ArgsTrace(order)]
  ELSE [out |-> PixelMaskDefault(arg1.ct, 2),
        trace |-> TestTrace2(arg1, arg2)]

C11_MutRepeatedChannel(f, arg1, arg2, order) ==
  IF Truthy(Valid(arg1)) /\ Truthy(Valid(arg2))
  THEN [out |-> PixelMask3(arg1.ct,
                  Func2(f, arg1.ct, Channel(arg1, 0), Channel(arg2, 0)),
                  Func2(f, arg1.ct, Channel(arg1, 1), Channel(arg2, 1)),
                  Func2(f, arg1.ct, Channel(arg1, 1), Channel(arg2, 1))),
        trace |-> TestTrace2(arg1, arg2) \o ArgsTrace(order)]
  ELSE [out |-> PixelMaskDefault(arg1.ct, 3),
        trace |-> TestTrace2(arg1, arg2)]

\* Helper<true,4,...>::construct
BinaryHelper3(f, arg1, arg2, order) ==
  IF Truthy(Valid(arg1)) /\ Truthy(Valid(arg2))
  THEN [out |-> PixelMask3(arg1.ct,
                  Func2(f, arg1.ct, Channel(arg1, 0), Channel(arg2, 0)),
                  Func2(f, arg1.ct, Channel(arg1, 1), Channel(arg2, 1)),
                  Func2(f, arg1.ct, Channel(arg1, 2), Channel(arg2, 2))),
        trace |-> TestTrace2(arg1, arg2) \o ArgsTrace(order)]
  ELSE [out |-> PixelMaskDefault(arg1.ct, 3),
        trace |-> TestTrace2(arg1, arg2)]

\* Helper<true,5,...>::construct
BinaryHelper4(f, arg1, arg2, order) ==
  IF Truthy(Valid(arg1)) /\ Truthy(Valid(arg2))
  THEN [out |-> PixelMask4(arg1.ct,
                  Func2(f, arg1.ct, Channel(arg1, 0), Channel(arg2, 0)),
                  Func2(f, arg1.ct, Channel(arg1, 1), Channel(arg2, 1)),
                  Func2(f, arg1.ct, Channel(arg1, 2), Channel(arg2, 2)),
                  Func2(f, arg1.ct, Channel(arg1, 3), Channel(arg2, 3))),
        trace |-> TestTrace2(arg1, arg2) \o ArgsTrace(order)]
  ELSE [out |-> PixelMaskDefault(arg1.ct, 4),
        trace |-> TestTrace2(arg1, arg2)]

\* PixelMaskBinaryCompoundFunctor::operator() picks the Helper by
\* CompoundNumChannels<result_type>::value, the payload count plus one.
BinaryCompoundFunctor(f, arg1, arg2, order) ==
  LET ChannelsN == Len(arg1.child) + 1
  IN  CASE ChannelsN = 2 -> BinaryHelper1(f, arg1, arg2)
        [] ChannelsN = 3 -> BinaryHelper2(f, arg1, arg2, order)
        [] ChannelsN = 4 -> BinaryHelper3(f, arg1, arg2, order)
        [] ChannelsN = 5 -> BinaryHelper4(f, arg1, arg2, order)
        [] OTHER         -> BinaryHelperN(f, arg1, arg2, ChannelsN)

(***************************************************************************)
(* PixelMaskBinaryInPlaceCompoundFunctor                                   *)
(***************************************************************************)
\* func(arg1[i],arg2[i]): func writes through its first argument
InPlace2(f, arg1, arg2, i) ==
  SetChannel(arg1, i, Func2(f, arg1.ct, Channel(arg1, i), Channel(arg2, i)))

RECURSIVE BinaryInPlaceLoop(_, _, _, _, _)
BinaryInPlaceLoop(f, arg1, arg2, i, ChannelsN) ==
  IF i < ChannelsN - 1
  THEN BinaryInPlaceLoop(f, InPlace2(f, arg1, arg2, i), arg2, i + 1, ChannelsN)
  ELSE arg1

\* Helper<CompoundB,ChannelsN,...>::apply, the general case
BinaryInPlaceHelperN(f, arg1, arg2, ChannelsN) ==
  IF Truthy(Valid(arg1)) /\ Truthy(Valid(arg2))
  THEN [out |-> BinaryInPlaceLoop(f, arg1, arg2, 0, ChannelsN),
        trace |-> TestTrace2(arg1, arg2) \o LoopTrace(ChannelsN)]
  ELSE [out |-> PixelMaskDefault(arg1.ct, ChannelsN - 1),
        trace |-> TestTrace2(arg1, arg2)]

\* Helper<true,2,...>::apply
BinaryInPlaceHelper1(f, arg1, arg2) ==
  IF Truthy(Valid(arg1)) /\ Truthy(Valid(arg2))
  THEN [out |-> InPlace2(f, arg1, arg2, 0),
        trace |-> TestTrace2(arg1, arg2) \o StmtTrace(1)]
  ELSE [out |-> PixelMaskDefault(arg1.ct, 1),
        trace |-> TestTrace2(arg1, arg2)]

\* Helper<true,3,...>::apply
BinaryInPlaceHelper2(f, arg1, arg2) ==
  IF Truthy(Valid(arg1)) /\ Truthy(Valid(arg2))
  THEN [out |-> InPlace2(f, InPlace2(f, arg1, arg2, 0), arg2, 1),
        trace |-> TestTrace2(arg1, arg2) \o StmtTrace(2)]
  ELSE [out |-> PixelMaskDefault(arg1.ct, 2),
        trace |-> TestTrace2(arg1, arg2)]

\* Helper<true,4,...>::apply
BinaryInPlaceHelper3(f, arg1, arg2) ==
  IF Truthy(Valid(arg1)) /\ Truthy(Valid(arg2))
  THEN [out |-> InPlace2(f, InPlace2(f, InPlace2(f, arg1, arg2, 0),
                                     arg2, 1), arg2, 2),
        trace |-> TestTrace2(arg1, arg2) \o StmtTrace(3)]
  ELSE [out |-> PixelMaskDefault(arg1.ct, 3),
        trace |-> TestTrace2(arg1, arg2)]

\* Helper<true,5,...>::apply
BinaryInPlaceHelper4(f, arg1, arg2) ==
  IF Truthy(Valid(arg1)) /\ Truthy(Valid(arg2))
  THEN [out |-> InPlace2(f, InPlace2(f, InPlace2(f, InPlace2(f, arg1, arg2, 0),
                                                 arg2, 1), arg2, 2), arg2, 3),
        trace |-> TestTrace2(arg1, arg2) \o StmtTrace(4)]
  ELSE [out |-> PixelMaskDefault(arg1.ct, 4),
        trace |-> TestTrace2(arg1, arg2)]

\* PixelMaskBinaryInPlaceCompoundFunctor::operator()
BinaryInPlaceCompoundFunctor(f, arg1, arg2) ==
  LET ChannelsN == Len(arg1.child) + 1
  IN  CASE ChannelsN = 2 -> BinaryInPlaceHelper1(f, arg1, arg2)
        [] ChannelsN = 3 -> BinaryInPlaceHelper2(f, arg1, arg2)
        [] ChannelsN = 4 -> BinaryInPlaceHelper3(f, arg1, arg2)
        [] ChannelsN = 5 -> BinaryInPlaceHelper4(f, arg1, arg2)
        [] OTHER         -> BinaryInPlaceHelperN(f, arg1, arg2, ChannelsN)

(***************************************************************************)
(* PixelMaskUnaryCompoundFunctor                                           *)
(***************************************************************************)
RECURSIVE UnaryLoop(_, _, _, _, _)
UnaryLoop(f, result, arg, i, ChannelsN) ==
  IF i < ChannelsN - 1
  THEN UnaryLoop(f, SetChannel(result, i, Func1(f, result.ct, Channel(arg, i))),
                 arg, i + 1, ChannelsN)
  ELSE result

\* Helper<CompoundB,ChannelsN,...>::construct, the general case
UnaryHelperN(f, arg, ChannelsN) ==
  IF Truthy(Valid(arg))
  THEN [out |-> Validate(UnaryLoop(f, PixelMaskDefault(arg.ct, ChannelsN - 1),
                                   arg, 0, ChannelsN)),
        trace |-> TestTrace1 \o LoopTrace(ChannelsN)]
  ELSE [out |-> PixelMaskDefault(arg.ct, ChannelsN - 1), trace |-> TestTrace1]

\* Helper<true,2,...>::construct
UnaryHelper1(f, arg) ==
  IF Truthy(Valid(arg))
  THEN [out |-> PixelMaskFromChild(arg.ct, <<Func1(f, arg.ct, Channel(arg, 0))>>),
        trace |-> TestTrace1 \o <<FuncEv(0)>>]
  ELSE [out |-> PixelMaskDefault(arg.ct, 1), trace |-> TestTrace1]

\* Helper<true,3,...>::construct
UnaryHelper2(f, arg, order) ==
  IF Truthy(Valid(arg))
  THEN [out |-> PixelMask2(arg.ct, Func1(f, arg.ct, Channel(arg, 0)),
                                   Func1(f, arg.ct, Channel(arg, 1))),
        trace |-> TestTrace1 \o ArgsTrace(order)]
  ELSE [out |-> PixelMaskDefault(arg.ct, 2), trace |-> TestTrace1]

\* Helper<true,4,...>::construct
UnaryHelper3(f, arg, order) ==
  IF Truthy(Valid(arg))
  THEN [out |-> PixelMask3(arg.ct, Func1(f, arg.ct, Channel(arg, 0)),
                                   Func1(f, arg.ct, Channel(arg, 1)),
                                   Func1(f, arg.ct, Channel(arg, 2))),
        trace |-> TestTrace1 \o ArgsTrace(order)]
  ELSE [out |-> PixelMaskDefault(arg.ct, 3), trace |-> TestTrace1]

\* Helper<true,5,...>::construct
UnaryHelper4(f, arg, order) ==
  IF Truthy(Valid(arg))
  THEN [out |-> PixelMask4(arg.ct, Func1(f, arg.ct, Channel(arg, 0)),
                                   Func1(f, arg.ct, Channel(arg, 1)),
                                   Func1(f, arg.ct, Channel(arg, 2)),
                                   Func1(f, arg.ct, Channel(arg, 3))),
        trace |-> TestTrace1 \o ArgsTrace(order)]
  ELSE [out |-> PixelMaskDefault(arg.ct, 4), trace |-> TestTrace1]

\* PixelMaskUnaryCompoundFunctor::operator()
UnaryCompoundFunctor(f, arg, order) ==
  LET ChannelsN == Len(arg.child) + 1
  IN  CASE ChannelsN = 2 -> UnaryHelper1(f, arg)
        [] ChannelsN = 3 -> UnaryHelper2(f, arg, order)
        [] ChannelsN = 4 -> UnaryHelper3(f, arg, order)
        [] ChannelsN = 5 -> UnaryHelper4(f, arg, order)
        [] OTHER         -> UnaryHelperN(f, arg, ChannelsN)

(***************************************************************************)
(* PixelMaskUnaryInPlaceCompoundFunctor                                    *)
(***************************************************************************)
\* func(arg[i]): func writes through its argument
InPlace1(f, arg, i) == SetChannel(arg, i, Func1(f, arg.ct, Channel(arg, i)))

RECURSIVE UnaryInPlaceLoop(_, _, _, _)
UnaryInPlaceLoop(f, arg, i, ChannelsN) ==
  IF i < ChannelsN - 1
  THEN UnaryInPlaceLoop(f, InPlace1(f, arg, i), i + 1, ChannelsN)
  ELSE arg

\* Helper<CompoundB,ChannelsN,ArgT>::apply, the general case
UnaryInPlaceHelperN(f, arg, ChannelsN) ==
  IF Truthy(Valid(arg))
  THEN [out |-> UnaryInPlaceLoop(f, arg, 0, ChannelsN),
        trace |-> TestTrace1 \o LoopTrace(ChannelsN)]
  ELSE [out |-> PixelMaskDefault(arg.ct, ChannelsN - 1), trace |-> TestTrace1]

\* Helper<true,2,ArgT>::apply
UnaryInPlaceHelper1(f, arg) ==
  IF Truthy(Valid(arg))
  THEN [out |-> InPlace1(f, arg, 0), trace |-> TestTrace1 \o StmtTrace(1)]
  ELSE [out |-> PixelMaskDefault(arg.ct, 1), trace |-> TestTrace1]

\* Helper<true,3,ArgT>::apply
UnaryInPlaceHelper2(f, arg) ==
  IF Truthy(Valid(arg))
  THEN [out |-> InPlace1(f, InPlace1(f, arg, 0), 1),
        trace |-> TestTrace1 \o StmtTrace(2)]
  ELSE [out |-> PixelMaskDefault(arg.ct, 2), trace |-> TestTrace1]

\* Helper<true,4,ArgT>::apply
UnaryInPlaceHelper3(f, arg) ==
  IF Truthy(Valid(arg))
  THEN [out |-> InPlace1(f, InPlace1(f, InPlace1(f, arg, 0), 1), 2),
        trace |-> TestTrace1 \o StmtTrace(3)]
  ELSE [out |-> PixelMaskDefault(arg.ct, 3), trace |-> TestTrace1]

\* Helper<true,5,ArgT>::apply
UnaryInPlaceHelper4(f, arg) ==
  IF Truthy(Valid(arg))
  THEN [out |-> InPlace1(f, InPlace1(f, InPlace1(f, InPlace1(f, arg, 0), 1), 2), 3),
        trace |-> TestTrace1 \o StmtTrace(4)]
  ELSE [out |-> PixelMaskDefault(arg.ct, 4), trace |-> TestTrace1]

\* PixelMaskUnaryInPlaceCompoundFunctor::operator()( ArgT& )
UnaryInPlaceCompoundFunctor(f, arg) ==
  LET ChannelsN == Len(arg.child) + 1
  IN  CASE ChannelsN = 2 -> UnaryInPlaceHelper1(f, arg)
        [] ChannelsN = 3 -> UnaryInPlaceHelper2(f, arg)
        [] ChannelsN = 4 -> UnaryInPlaceHelper3(f, arg)
        [] ChannelsN = 5 -> UnaryInPlaceHelper4(f, arg)
        [] OTHER         -> UnaryInPlaceHelperN(f, arg, ChannelsN)

(***************************************************************************)
(* State: two PixelMask objects a and b whose child type has n channels,   *)
(* and last, the record of the latest call made on them: its name, the     *)
(* object it was made on, its function, its arguments as they were when    *)
(* it was made, what it returned and what it did.                          *)
(***************************************************************************)
NoPixel == [ct |-> "none", child |-> <<>>, valid |-> 0]

NoMean == [num |-> 0, den |-> 1]

NoView == [built |-> FALSE]

NoCall == [op |-> "none", reg |-> "-", f |-> "-", arg1 |-> NoPixel,
           arg2 |-> NoPixel, args |-> <<>>, out |-> NoPixel, trace |-> <<>>,
           mean |-> NoMean]

BuildOps == {"none", "default", "child", "channels", "convert",
             "invalidate", "validate"}

\* The child values handed to the constructors: channel i holds s + i*d.
ChildVals(k) == {[i \in 1..k |-> s + (i - 1) * d] : s \in 0..MaxVal, d \in 0..1}

Regs == {"a", "b"}

Reg(r) == IF r = "a" THEN a ELSE b

Other(r) == IF r = "a" THEN b ELSE a

SetReg(r, v) == IF r = "a" THEN a' = v /\ b' = b ELSE b' = v /\ a' = a

\* Constructors and validity setters run until a functor or
\* mean_channel_value has been called.
Building == last.op \in BuildOps

ViewIdle == UNCHANGED <<img, cmv, amv, qry>>

Init ==
  /\ n \in 1..MaxChannels
  /\ \E ta \in ChannelTypes : a = PixelMaskDefault(ta, n)
  /\ \E tb \in ChannelTypes : b = PixelMaskDefault(tb, n)
  /\ last = NoCall
  /\ img = NoView
  /\ cmv = NoView
  /\ amv = NoView
  /\ qry = NoCall

\* r = PixelMask<ChildT>();
ConstructDefault ==
  /\ Building
  /\ \E r \in Regs :
       /\ SetReg(r, PixelMaskDefault(Reg(r).ct, n))
       /\ last' = [NoCall EXCEPT !.op = "default", !.reg = r]
  /\ UNCHANGED n
  /\ ViewIdle

\* r = PixelMask<ChildT>( pix );
ConstructFromChild ==
  /\ Building
  /\ \E r \in Regs, pix \in ChildVals(n) :
       /\ SetReg(r, PixelMaskFromChild(Reg(r).ct, pix))
       /\ last' = [NoCall EXCEPT !.op = "child", !.reg = r, !.args = pix]
  /\ UNCHANGED n
  /\ ViewIdle

\* r = PixelMask<ChildT>( a0, a1 [, a2 [, a3]] ); the overload whose arity is
\* the child's channel count.
ConstructFromChannels ==
  /\ Building
  /\ n \in 2..4
  /\ \E r \in Regs, c \in ChildVals(n) :
       /\ SetReg(r, CASE n = 2 -> PixelMask2(Reg(r).ct, c[1], c[2])
                      [] n = 3 -> PixelMask3(Reg(r).ct, c[1], c[2], c[3])
                      [] n = 4 -> PixelMask4(Reg(r).ct, c[1], c[2], c[3], c[4]))
       /\ last' = [NoCall EXCEPT !.op = "channels", !.reg = r, !.args = c]
  /\ UNCHANGED n
  /\ ViewIdle

\* r = PixelMask<ChildT>( other ); other has another channel type (between
\* equal types the copy constructor is chosen).
ConstructConvert ==
  /\ Building
  /\ \E r \in Regs :
       /\ Reg(r).ct # Other(r).ct
       /\ SetReg(r, PixelMaskConvert(Reg(r).ct, Other(r)))
       /\ last' = [NoCall EXCEPT !.op = "convert", !.reg = r, !.arg1 = Other(r)]
  /\ UNCHANGED n
  /\ ViewIdle

\* r.invalidate();
InvalidateReg ==
  /\ Building
  /\ \E r \in Regs :
       /\ SetReg(r, Invalidate(Reg(r)))
       /\ last' = [NoCall EXCEPT !.op = "invalidate", !.reg = r, !.arg1 = Reg(r)]
  /\ UNCHANGED n
  /\ ViewIdle

\* r.validate();
ValidateReg ==
  /\ Building
  /\ \E r \in Regs :
       /\ SetReg(r, Validate(Reg(r)))
       /\ last' = [NoCall EXCEPT !.op = "validate", !.reg = r, !.arg1 = Reg(r)]
  /\ UNCHANGED n
  /\ ViewIdle

\* mean_channel_value( r )
MeanCall ==
  /\ Building
  /\ \E r \in Regs :
       last' = [NoCall EXCEPT !.op = "mean", !.reg = r, !.arg1 = Reg(r),
                              !.mean = MeanChannelValue(Reg(r))]
  /\ UNCHANGED <<n, a, b>>
  /\ ViewIdle

\* compound_apply( func, a, b )
CompoundApplyBinary ==
  /\ Building
  /\ \E f \in BinaryFuncs, order \in Orders(n) :
       LET res == BinaryCompoundFunctor(f, a, b, order)
       IN  last' = [NoCall EXCEPT !.op = "apply2", !.f = f, !.arg1 = a,
                                  !.arg2 = b, !.out = res.out,
                                  !.trace = res.trace]
  /\ UNCHANGED <<n, a, b>>
  /\ ViewIdle

\* compound_apply_in_place( func, a, b )
CompoundApplyInPlaceBinary ==
  /\ Building
  /\ \E f \in BinaryFuncs :
       LET res == BinaryInPlaceCompoundFunctor(f, a, b)
       IN  /\ a' = res.out
           /\ last' = [NoCall EXCEPT !.op = "inplace2", !.f = f, !.arg1 = a,
                                     !.arg2 = b, !.out = res.out,
                                     !.trace = res.trace]
  /\ UNCHANGED <<n, b>>
  /\ ViewIdle

\* compound_apply( func, a )
CompoundApplyUnary ==
  /\ Building
  /\ \E f \in UnaryFuncs, order \in Orders(n) :
       LET res == UnaryCompoundFunctor(f, a, order)
       IN  last' = [NoCall EXCEPT !.op = "apply1", !.f = f, !.arg1 = a,
                                  !.out = res.out, !.trace = res.trace]
  /\ UNCHANGED <<n, a, b>>
  /\ ViewIdle

\* compound_apply_in_place( func, a )
CompoundApplyInPlaceUnary ==
  /\ Building
  /\ \E f \in UnaryFuncs :
       LET res == UnaryInPlaceCompoundFunctor(f, a)
       IN  /\ a' = res.out
           /\ last' = [NoCall EXCEPT !.op = "inplace1", !.f = f, !.arg1 = a,
                                     !.out = res.out, !.trace = res.trace]
  /\ UNCHANGED <<n, b>>
  /\ ViewIdle

Next ==
  \/ ConstructDefault
  \/ ConstructFromChild
  \/ ConstructFromChannels
  \/ ConstructConvert
  \/ InvalidateReg
  \/ ValidateReg
  \/ MeanCall
  \/ CompoundApplyBinary
  \/ CompoundApplyInPlaceBinary
  \/ CompoundApplyUnary
  \/ CompoundApplyInPlaceUnary

Spec == Init /\ [][Next]_vars

\* ---------------------------------------------------------------------
\* The channel indexing operator, exercised on the same pixels.

\* the values of channel_type a caller stores through operator[]
WriteVals(t) == (0..MaxVal) \cup {ChannelRangeMin(t), ChannelRangeMax(t)}

\* r[i] = v;
IndexWrite ==
  /\ Building
  /\ \E r \in Regs : \E i \in 0..n : \E v \in WriteVals(Reg(r).ct) :
       /\ SetReg(r, SetChannel(Reg(r), i, v))
       /\ last' = [NoCall EXCEPT !.op = "index_write", !.reg = r,
                                 !.arg1 = Reg(r), !.args = <<i, v>>]
  /\ UNCHANGED n
  /\ ViewIdle

\* v = r[i];   (const overload)
IndexRead ==
  /\ Building
  /\ \E r \in Regs : \E i \in 0..n :
       last' = [NoCall EXCEPT !.op = "index_read", !.reg = r,
                              !.arg1 = Reg(r),
                              !.args = <<i, Channel(Reg(r), i)>>]
  /\ UNCHANGED <<n, a, b>>
  /\ ViewIdle

NextIndex ==
  \/ ConstructDefault
  \/ ConstructFromChild
  \/ ConstructFromChannels
  \/ ConstructConvert
  \/ InvalidateReg
  \/ ValidateReg
  \/ IndexWrite
  \/ IndexRead

SpecIndex == Init /\ [][NextIndex]_vars

(***************************************************************************)
(* The views.  img is the wrapped image view: its pixels are child values  *)
(* of n channels of type img.ct, one per coordinate <<col, row, plane>>.   *)
(* cmv is a CreatePixelMaskView over img, amv an ApplyPixelMaskView over   *)
(* a copy of cmv.  nodata_arg and replacement_arg remember the value that  *)
(* was handed to the constructor; they are no members of the views.  qry   *)
(* is the record of the latest call: args its argument, at the coordinate  *)
(* of an operator() call, out the PixelMask it returned (cmv) and          *)
(* out.child the pixel it returned (amv).                                  *)
(***************************************************************************)
Coords == {<<c, 0, 0>> : c \in 0..(MaxCols - 1)}

\* A member of pixel type that no constructor initialises: zero when the
\* pixel type is a class (its default constructor runs), anything when it
\* is a bare scalar, which only a one-channel pixel can be.
DefaultInit(k) == IF k = 1 THEN ChildVals(1) \cup {ChildDefault(1)}
                  ELSE {ChildDefault(k)}

\* m_view(col,row,plane) of the image
ImagePixel(image, at) == image.data[at]

\* CreatePixelMaskView( view, nodata_value ); indet is what the
\* uninitialised m_nodata_value holds
CreatePixelMaskViewCtor(nodata_value, indet) ==
  [built |-> TRUE, m_nodata_value |-> indet, m_use_nodata_value |-> FALSE,
   nodata_arg |-> nodata_value]

\* set_nodata_value( value )
SetNodataValue(v, value) ==
  [v EXCEPT !.m_nodata_value = value, !.m_use_nodata_value = TRUE]

\* create_mask( view, value )
CreateMask(value, indet) ==
  SetNodataValue(CreatePixelMaskViewCtor(value, indet), value)

C5_MutNoInvalidate(v, image, at) ==
  PixelMaskFromChild(image.ct, ImagePixel(image, at))

\* CreatePixelMaskView::operator()( col, row, plane )
CreatePixelMaskViewCall(v, image, at) ==
  IF v.m_use_nodata_value /\ ImagePixel(image, at) = v.m_nodata_value
  THEN Invalidate(PixelMaskFromChild(image.ct, ImagePixel(image, at)))
  ELSE PixelMaskFromChild(image.ct, ImagePixel(image, at))

\* ApplyPixelMaskView( view, replacement_value ); indet is what the
\* uninitialised m_replacement_value holds
ApplyPixelMaskViewCtor(view, replacement_value, indet) ==
  [built |-> TRUE, m_view |-> view, m_replacement_value |-> indet,
   replacement_arg |-> replacement_value]

\* apply_mask( view, value )
ApplyMask(view, value, indet) == ApplyPixelMaskViewCtor(view, value, indet)

\* ApplyPixelMaskView::operator()( col, row, plane )
ApplyPixelMaskViewCall(v, image, at) ==
  LET px == CreatePixelMaskViewCall(v.m_view, image, at)
  IN  IF ~IsTransparent(px) THEN Child(px) ELSE v.m_replacement_value

C14_MutColsAsLastIndex(v, image) == image.cols - 1

\* CreatePixelMaskView::cols()
CreatePixelMaskViewCols(v, image) == image.cols

\* CreatePixelMaskView::rows()
CreatePixelMaskViewRows(v, image) == image.rows

\* CreatePixelMaskView::planes()
CreatePixelMaskViewPlanes(v, image) == image.planes

\* ApplyPixelMaskView::cols(), rows(), planes(): m_view is the mask view
ApplyPixelMaskViewCols(v, image) == CreatePixelMaskViewCols(v.m_view, image)

ApplyPixelMaskViewRows(v, image) == CreatePixelMaskViewRows(v.m_view, image)

ApplyPixelMaskViewPlanes(v, image) ==
  CreatePixelMaskViewPlanes(v.m_view, image)

PixelIdle == UNCHANGED <<a, b, last>>

InitView ==
  /\ n \in 1..MaxViewChannels
  /\ \E t \in ChannelTypes :
       /\ a = PixelMaskDefault(t, n)
       /\ b = PixelMaskDefault(t, n)
       /\ \E data \in [Coords -> ChildVals(n)] :
            img = [built |-> TRUE, ct |-> t, cols |-> MaxCols, rows |-> 1,
                   planes |-> 1, data |-> data]
  /\ last = NoCall
  /\ cmv = NoView
  /\ amv = NoView
  /\ qry = NoCall

\* CreatePixelMaskView<ViewT> cmv( img, nodata_value );
ViewConstruct ==
  /\ \E value \in ChildVals(n), indet \in DefaultInit(n) :
       /\ cmv' = CreatePixelMaskViewCtor(value, indet)
       /\ qry' = [NoCall EXCEPT !.op = "ctor", !.args = value]
  /\ amv' = NoView
  /\ UNCHANGED <<n, img>>
  /\ PixelIdle

\* cmv = create_mask( img, value );
ViewCreateMask ==
  /\ \E value \in ChildVals(n), indet \in DefaultInit(n) :
       /\ cmv' = CreateMask(value, indet)
       /\ qry' = [NoCall EXCEPT !.op = "create_mask", !.args = value]
  /\ amv' = NoView
  /\ UNCHANGED <<n, img>>
  /\ PixelIdle

\* cmv.set_nodata_value( value ); the copy inside amv is out of its reach, so
\* the model follows cmv only until it has been handed to apply_mask.
ViewSetNodataValue ==
  /\ cmv.built
  /\ ~amv.built
  /\ \E value \in ChildVals(n) :
       /\ cmv' = SetNodataValue(cmv, value)
       /\ qry' = [NoCall EXCEPT !.op = "set_nodata_value", !.args = value]
  /\ UNCHANGED <<n, img, amv>>
  /\ PixelIdle

\* cmv( col, row, plane )
ViewCreateCall ==
  /\ cmv.built
  /\ \E at \in Coords :
       qry' = [NoCall EXCEPT !.op = "create_call", !.args = at,
                             !.out = CreatePixelMaskViewCall(cmv, img, at)]
  /\ UNCHANGED <<n, img, cmv, amv>>
  /\ PixelIdle

\* amv = apply_mask( cmv, value );
ViewApplyMask ==
  /\ cmv.built
  /\ \E value \in ChildVals(n), indet \in DefaultInit(n) :
       /\ amv' = ApplyMask(cmv, value, indet)
       /\ qry' = [NoCall EXCEPT !.op = "apply_mask", !.args = value]
  /\ UNCHANGED <<n, img, cmv>>
  /\ PixelIdle

\* amv( col, row, plane )
ViewApplyCall ==
  /\ amv.built
  /\ \E at \in Coords :
       qry' = [NoCall EXCEPT !.op = "apply_call", !.args = at,
                 !.arg1 = CreatePixelMaskViewCall(amv.m_view, img, at),
                 !.out = PixelMaskFromChild(img.ct,
                           ApplyPixelMaskViewCall(amv, img, at))]
  /\ UNCHANGED <<n, img, cmv, amv>>
  /\ PixelIdle

\* cmv.cols(), cmv.rows(), cmv.planes()
ViewCreateDims ==
  /\ cmv.built
  /\ qry' = [NoCall EXCEPT !.op = "create_dims",
                           !.args = <<CreatePixelMaskViewCols(cmv, img),
                                      CreatePixelMaskViewRows(cmv, img),
                                      CreatePixelMaskViewPlanes(cmv, img)>>]
  /\ UNCHANGED <<n, img, cmv, amv>>
  /\ PixelIdle

\* amv.cols(), amv.rows(), amv.planes()
ViewApplyDims ==
  /\ amv.built
  /\ qry' = [NoCall EXCEPT !.op = "apply_dims",
                           !.args = <<ApplyPixelMaskViewCols(amv, img),
                                      ApplyPixelMaskViewRows(amv, img),
                                      ApplyPixelMaskViewPlanes(amv, img)>>]
  /\ UNCHANGED <<n, img, cmv, amv>>
  /\ PixelIdle

NextView ==
  \/ ViewConstruct
  \/ ViewCreateMask
  \/ ViewSetNodataValue
  \/ ViewCreateCall
  \/ ViewApplyMask
  \/ ViewApplyCall
  \/ ViewCreateDims
  \/ ViewApplyDims

SpecView == InitView /\ [][NextView]_vars

(***************************************************************************)
(* The properties.                                                         *)
(***************************************************************************)
\* A pixel is marked valid when its validity channel holds the maximum of
\* its channel type, and marked invalid when it holds the minimum.
IsValid(p) == p.valid = ChannelRangeMax(p.ct)

IsInvalid(p) == p.valid = ChannelRangeMin(p.ct)

\* A pixel as the default constructor leaves it.
IsDefault(p, t, k) ==
  /\ p.ct = t
  /\ Len(p.child) = k
  /\ \A i \in 1..k : p.child[i] = 0
  /\ p.valid = ChannelRangeMin(t)

RECURSIVE SeqSum(_)
SeqSum(s) == IF s = <<>> THEN 0 ELSE Head(s) + SeqSum(Tail(s))

FuncIndices(trace) == {j \in 1..Len(trace) : trace[j][1] = "func"}

ValidIndices(trace) == {j \in 1..Len(trace) : trace[j][1] = "valid"}

\* C1: in each of the four dispatch shapes, for every channel count and
\* every function, the result is valid if and only if every operand is.
C1_ValidityPropagation ==
  /\ last.op \in {"apply2", "inplace2"} =>
       (IsValid(last.out) <=> (IsValid(last.arg1) /\ IsValid(last.arg2)))
  /\ last.op \in {"apply1", "inplace1"} =>
       (IsValid(last.out) <=> IsValid(last.arg1))

\* C2: at a coordinate whose masked pixel is invalid, an ApplyPixelMaskView
\* built with replacement value r returns r.
C2_MaskReplacement ==
  (qry.op = "apply_call" /\ IsInvalid(qry.arg1)) =>
     qry.out.child = amv.replacement_arg

\* C3: after any sequence of constructions, invalidate(), validate() and
\* functor calls, the validity channel of every PixelMask is the minimum or
\* the maximum of its channel type.
C3_ValidityEncoding ==
  \A p \in {a, b} \cup (IF last.out = NoPixel THEN {} ELSE {last.out}) :
     IsValid(p) \/ IsInvalid(p)

\* C4: mean_channel_value of an invalid PixelMask is 0, and of a valid one
\* with k payload channels it is the sum of those k channels divided by k.
C4_MeanChannelValue ==
  last.op = "mean" =>
     IF IsValid(last.arg1)
     THEN last.mean.num * Len(last.arg1.child)
            = SeqSum(last.arg1.child) * last.mean.den
     ELSE last.mean.num = 0

C6_RoundTrip ==
  (/\ qry.op = "apply_call"
   /\ amv.m_view.m_use_nodata_value
   /\ img.data[qry.args] # amv.m_view.m_nodata_value) =>
     qry.out.child = img.data[qry.args]

C6_Witness ==
  /\ qry.op = "apply_call"
  /\ amv.m_view.m_use_nodata_value
  /\ img.data[qry.args] # amv.m_view.m_nodata_value
  /\ img.data[qry.args] # amv.replacement_arg
  /\ img.data[qry.args] # amv.m_replacement_value
  /\ qry.out.child = img.data[qry.args]

\* C7: a default-constructed PixelMask holds the minimum of its channel
\* type in the validity channel and zero in every payload channel.
C7_DefaultInvalid ==
  /\ last.op = "none" =>
       (IsDefault(a, a.ct, n) /\ IsDefault(b, b.ct, n))
  /\ last.op = "default" =>
       IsDefault(Reg(last.reg), Reg(last.reg).ct, n)

C7_Witness ==
  /\ last.op = "default"
  /\ n = 3
  /\ Reg(last.reg).ct = "int8"
  /\ Reg(last.reg) = [ct |-> "int8", child |-> <<0, 0, 0>>, valid |-> -128]
  /\ IsValid(Other(last.reg))

\* C8: a PixelMask constructed from a child value v, or from 2, 3 or 4
\* channel values, is valid and its payload is v (the channel values in
\* the order given).
C8_ImplicitValid ==
  /\ last.op = "child" =>
       /\ Reg(last.reg).child = last.args
       /\ Reg(last.reg).valid = ChannelRangeMax(Reg(last.reg).ct)
  /\ last.op = "channels" =>
       /\ Len(Reg(last.reg).child) = n
       /\ \A i \in 1..n : Reg(last.reg).child[i] = last.args[i]
       /\ Reg(last.reg).valid = ChannelRangeMax(Reg(last.reg).ct)

C8_Witness ==
  /\ last.op \in {"child", "channels"}
  /\ n >= 2
  /\ Reg(last.reg).child[1] # Reg(last.reg).child[2]
  /\ IsValid(Reg(last.reg))

\* C9: compound_apply returns, when every operand is valid, a valid pixel
\* whose channel i is func of the operands' channels i; when an operand is
\* invalid it returns a default-constructed pixel and never calls func.
C9_FunctionalDispatch ==
  /\ last.op = "apply2" =>
       IF IsValid(last.arg1) /\ IsValid(last.arg2)
       THEN /\ IsValid(last.out)
            /\ Len(last.out.child) = n
            /\ \A i \in 1..n : last.out.child[i] =
                 Func2(last.f, last.arg1.ct, last.arg1.child[i],
                       last.arg2.child[i])
       ELSE /\ IsDefault(last.out, last.arg1.ct, n)
            /\ FuncIndices(last.trace) = {}
  /\ last.op = "apply1" =>
       IF IsValid(last.arg1)
       THEN /\ IsValid(last.out)
            /\ Len(last.out.child) = n
            /\ \A i \in 1..n : last.out.child[i] =
                 Func1(last.f, last.arg1.ct, last.arg1.child[i])
       ELSE /\ IsDefault(last.out, last.arg1.ct, n)
            /\ FuncIndices(last.trace) = {}

\* C10: compound_apply_in_place tests validity before any call of func;
\* when every operand is valid it calls func once on each payload channel
\* 0..N-1 of a and never on the validity channel, a stays valid and b is
\* unchanged; when an operand is invalid it never calls func and leaves a
\* default-constructed.
C10_InPlaceDispatch ==
  last.op \in {"inplace1", "inplace2"} =>
    LET binary == last.op = "inplace2"
        allvalid == IsValid(last.arg1) /\ (binary => IsValid(last.arg2))
        calls == FuncIndices(last.trace)
    IN  /\ a = last.out
        /\ binary => b = last.arg2
        /\ \A k \in {1, 2} :
             Cardinality({j \in ValidIndices(last.trace) :
                            last.trace[j][2] = k}) <= 1
        /\ \A j \in ValidIndices(last.trace), k \in calls : j < k
        /\ IF allvalid
           THEN /\ IsValid(a)
                /\ \A i \in 0..(n - 1) :
                     Cardinality({k \in calls : last.trace[k][2] = i}) = 1
                /\ \A k \in calls : last.trace[k][2] \in 0..(n - 1)
                /\ \A i \in 1..n : a.child[i] =
                     IF binary
                     THEN Func2(last.f, a.ct, last.arg1.child[i],
                                last.arg2.child[i])
                     ELSE Func1(last.f, a.ct, last.arg1.child[i])
           ELSE /\ calls = {}
                /\ IsDefault(a, last.arg1.ct, n)

\* C11: for 1 to 4 payload channels, every function and every operands,
\* valid or not, the unrolled Helper that the functor picked returns the
\* same pixel (payload and validity) as the general loop Helper does on the
\* same arguments, in each of the four dispatch shapes.
C11_UnrolledGeneral ==
  n \in 1..4 =>
    /\ last.op = "apply2" =>
         last.out = BinaryHelperN(last.f, last.arg1, last.arg2, n + 1).out
    /\ last.op = "inplace2" =>
         last.out = BinaryInPlaceHelperN(last.f, last.arg1, last.arg2, n + 1).out
    /\ last.op = "apply1" =>
         last.out = UnaryHelperN(last.f, last.arg1, n + 1).out
    /\ last.op = "inplace1" =>
         last.out = UnaryInPlaceHelperN(last.f, last.arg1, n + 1).out

C11_Witness ==
  /\ last.op = "apply2"
  /\ n = 3
  /\ IsValid(last.out)
  /\ last.out.child # last.arg1.child
  /\ last.out.child[2] # last.out.child[3]
  /\ last.out = BinaryHelperN(last.f, last.arg1, last.arg2, 4).out

\* C12: for a pixel whose payload has k channels, index k is the validity
\* channel and each index i in 0..k-1 is payload channel i: a write through
\* i < k stores into payload channel i alone and leaves the validity as it
\* was, a write through k stores into the validity and leaves the payload
\* as it was, and a read returns the channel so named.
C12_IndexBoundary ==
  LET old == last.arg1
      k == Len(old.child)
      i == last.args[1]
      v == last.args[2]
      p == Reg(last.reg)
  IN  /\ last.op = "index_write" =>
           IF i = k
           THEN p.child = old.child /\ p.valid = v
           ELSE /\ i \in 0..(k - 1)
                /\ p.valid = old.valid
                /\ p.child[i + 1] = v
                /\ \A j \in 1..k : j # i + 1 => p.child[j] = old.child[j]
      /\ last.op = "index_read" =>
           IF i = k THEN v = old.valid ELSE v = old.child[i + 1]

C12_Witness ==
  /\ last.op = "index_write"
  /\ Len(last.arg1.child) = 2
  /\ last.args[1] = 1
  /\ last.args[2] # last.arg1.child[2]
  /\ IsValid(last.arg1)
  /\ IsValid(Reg(last.reg))
  /\ Reg(last.reg).child[2] = last.args[2]

\* C13: after converting construction from a pixel of another channel type,
\* a valid source gives a valid target whose payload is the converted
\* source payload, and an invalid source gives a target whose validity is
\* the invalid encoding of the target's type and whose payload is the
\* child type's default value.
C13_ConvertingConstruction ==
  last.op = "convert" =>
    LET src == last.arg1
        tgt == Reg(last.reg)
    IN  /\ IsValid(src) =>
             /\ IsValid(tgt)
             /\ tgt.child = ChildConvert(tgt.ct, src.child)
        /\ IsInvalid(src) =>
             /\ IsInvalid(tgt)
             /\ tgt.child = ChildDefault(Len(src.child))

\* what the two views answer at a coordinate in the current state
C14_Answer(at) ==
  [create |-> IF cmv.built THEN CreatePixelMaskViewCall(cmv, img, at)
              ELSE NoPixel,
   apply |-> IF amv.built THEN ApplyPixelMaskViewCall(amv, img, at)
             ELSE <<>>]

C14_QueryOps == {"create_call", "apply_call", "create_dims", "apply_dims"}

C14_QueryStep ==
  qry'.op \in C14_QueryOps =>
    /\ UNCHANGED <<img, cmv, amv>>
    /\ \A at \in Coords : C14_Answer(at)' = C14_Answer(at)
    /\ qry'.op = "create_call" => qry'.out = C14_Answer(qry'.args).create
    /\ qry'.op = "apply_call" =>
         qry'.out = PixelMaskFromChild(img.ct, C14_Answer(qry'.args).apply)

C14_Dims ==
  qry.op \in {"create_dims", "apply_dims"} =>
    qry.args = <<img.cols, img.rows, img.planes>>

C15_SentinelInEffect ==
  qry.op \in {"ctor", "create_mask", "set_nodata_value"} =>
    /\ cmv.m_use_nodata_value
    /\ cmv.m_nodata_value = qry.args
    /\ \A at \in Coords :
         IsInvalid(CreatePixelMaskViewCall(cmv, img, at))
           <=> ImagePixel(img, at) = qry.args

\* C16: for every channel type, a pixel whose validity channel holds the
\* type's minimum is invalid to every boolean test of valid(): it is
\* transparent, a dispatch whose first operand it is applies no function
\* and gives an invalid result, and its mean channel value is 0.
C16_EncodingBoolean ==
  /\ \A r \in Regs : IsInvalid(Reg(r)) => IsTransparent(Reg(r))
  /\ (last.op \in {"apply2", "inplace2", "apply1", "inplace1"}
        /\ IsInvalid(last.arg1)) =>
       /\ FuncIndices(last.trace) = {}
       /\ IsInvalid(last.out)
  /\ (last.op = "mean" /\ IsInvalid(last.arg1)) => last.mean.num = 0

====
